---- MODULE Spec2Model ----
(***************************************************************************)
(* The resilience core of the coding-agent server: the three-state         *)
(* CircuitBreaker of services/llm/openai_client.py, the timeout_wrapper    *)
(* decorator that bounds a wrapped coroutine with asyncio.wait_for, the    *)
(* OpenAIClient.analyze_code wrapper and the POST /api/analyze/code route   *)
(* that sit on top of it, and the shared timeout-event log of              *)
(* services/health.py.                                                     *)
(*                                                                         *)
(* Callers are asyncio tasks on one event loop: everything between two     *)
(* awaits is one atomic step.  CircuitBreaker.call has exactly one await    *)
(* (the wrapped function), so a call is an admission step and, if          *)
(* admitted, one completion step.  Time is a clock of integer ticks.       *)
(***************************************************************************)
EXTENDS Integers, Sequences, FiniteSets, TLC

\* ------------------------------------------------------------------ bounds
MaxCalls     == 3    \* call() invocations in one behaviour
MaxTime      == 3    \* last clock tick
MaxThreshold == 2    \* failure_threshold and success_threshold are 1 or MaxThreshold
MaxRecovery  == 2    \* recovery_timeout is 1 or MaxRecovery ticks

\* ------------------------------------------------------ program constants
MaxTimeoutEvents == 100     \* health.py: "Keep only last 100 events"
BreakerTimeout   == 30      \* CircuitBreakerConfig.timeout default
NoTime           == -1      \* last_failure_time = None
NoTimeout        == 0       \* the wrapped function is not decorated with timeout_wrapper
HTTP_OK          == 200
HTTP_TIMEOUT     == 408
HTTP_UNAVAILABLE == 503
HTTP_INTERNAL    == 500
NoHttp           == 0       \* the call was not made on behalf of an HTTP request

\* CircuitBreakerState
CLOSED    == "closed"
OPEN      == "open"
HALF_OPEN == "half_open"

\* The asyncio tasks that use the breaker concurrently.
Callers == {"c1", "c2"}

\* What the wrapped function can return, and the exceptions it can raise.
Values == {"r1", "r2"}
\* An exception is its class, its message and the number of seconds the message
\* quotes (NoTimeout when it quotes none).
Errors == {[cls |-> "Exception", msg |-> "Test failure", secs |-> NoTimeout],
           [cls |-> "ConnectionError", msg |-> "Network timeout", secs |-> NoTimeout]}
NoErr  == [cls |-> "", msg |-> "", secs |-> NoTimeout]

\* Who calls the breaker: a bare cb.call(func) as in the tests, or
\* OpenAIClient.analyze_code on behalf of POST /api/analyze/code.
Vias == {"direct", "analyze_code"}

VARIABLES
    health_available,   \* whether "from services.health import health_service" succeeds
    config,             \* CircuitBreakerConfig of the breaker
    state,              \* CircuitBreaker.state
    failure_count,      \* CircuitBreaker.failure_count
    success_count,      \* CircuitBreaker.success_count
    last_failure_time,  \* CircuitBreaker.last_failure_time (NoTime = None)
    now,                \* time.time()
    timeout_events,     \* health_service.timeout_events
    pc,                 \* per caller: "idle" or "running" (suspended in await func())
    call,               \* per caller: the call in flight
    calls,              \* number of call() invocations so far
    consec,             \* history: failures recorded since the last recorded success
    last,               \* history: the last operation, the breaker just before it,
                        \* and what the operation gave its caller
    tm,                 \* a TimeoutManager: its environment, its config, the last lookup
    recorded,           \* number of record_timeout_event calls made so far
    health,             \* a health check: what the probes met and what was reported
    mw,                 \* a request in TimeoutMiddleware.dispatch and its outcome
    clients             \* the OpenAIClient instances created so far, each with its breaker

\* The variables of the breaker and its callers, and those of the other components.
core == <<health_available, config, state, failure_count, success_count, last_failure_time, now,
          timeout_events, pc, call, calls, consec, last>>
aux  == <<tm, recorded, health, mw, clients>>
vars == <<core, aux>>

\* The breaker's fields as one record.
Breaker ==
    [state |-> state, failure_count |-> failure_count,
     success_count |-> success_count, last_failure_time |-> last_failure_time]

\* ------------------------------------------------------- CircuitBreaker

\* _should_attempt_request without the "return False" of the OPEN branch: an
\* OPEN breaker whose recovery_timeout has not elapsed admits the request.
should_attempt_request_no_reject(b, t) ==
    IF b.state = OPEN /\ t - b.last_failure_time >= config.recovery_timeout
    THEN [ok |-> TRUE,
          b  |-> [b EXCEPT !.state = HALF_OPEN, !.success_count = 0]]
    ELSE [ok |-> TRUE, b |-> b]

\* _should_attempt_request that admits after recovery_timeout but forgets to
\* move the breaker to HALF_OPEN.
should_attempt_request_no_half_open(b, t) ==
    IF b.state = OPEN
    THEN [ok |-> t - b.last_failure_time >= config.recovery_timeout, b |-> b]
    ELSE [ok |-> TRUE, b |-> b]

\* _should_attempt_request that lets through only the call that finds the
\* recovery timeout elapsed: callers that find the breaker HALF_OPEN are
\* rejected.
should_attempt_request_one_probe(b, t) ==
    IF b.state = CLOSED THEN [ok |-> TRUE, b |-> b]
    ELSE IF b.state = OPEN THEN
        IF t - b.last_failure_time >= config.recovery_timeout
        THEN [ok |-> TRUE,
              b  |-> [b EXCEPT !.state = HALF_OPEN, !.success_count = 0]]
        ELSE [ok |-> FALSE, b |-> b]
    ELSE [ok |-> FALSE, b |-> b]

\* CircuitBreaker._should_attempt_request at time t: whether the request is
\* admitted, and the breaker after the check.
should_attempt_request(b, t) ==
    IF b.state = CLOSED THEN [ok |-> TRUE, b |-> b]
    ELSE IF b.state = OPEN THEN
        IF t - b.last_failure_time >= config.recovery_timeout
        THEN [ok |-> TRUE,
              b  |-> [b EXCEPT !.state = HALF_OPEN, !.success_count = 0]]
        ELSE [ok |-> FALSE, b |-> b]
    ELSE IF b.state = HALF_OPEN THEN [ok |-> TRUE, b |-> b]
    ELSE [ok |-> FALSE, b |-> b]

\* _record_success that closes the breaker one success late (> for >=).
record_success_late(b) ==
    LET b1 == [b EXCEPT !.failure_count = 0] IN
    IF b1.state = HALF_OPEN
    THEN LET b2 == [b1 EXCEPT !.success_count = @ + 1] IN
         IF b2.success_count > config.success_threshold
         THEN [b2 EXCEPT !.state = CLOSED]
         ELSE b2
    ELSE b1

\* _record_success that sets success_count back to 0 when it closes the breaker.
record_success_reset_on_close(b) ==
    LET b1 == [b EXCEPT !.failure_count = 0] IN
    IF b1.state = HALF_OPEN
    THEN LET b2 == [b1 EXCEPT !.success_count = @ + 1] IN
         IF b2.success_count >= config.success_threshold
         THEN [b2 EXCEPT !.state = CLOSED, !.success_count = 0]
         ELSE b2
    ELSE b1

\* _record_success that closes the breaker on a success recorded in any state
\* but CLOSED, without looking whether the breaker is HALF_OPEN.
record_success_closes_open(b) ==
    LET b1 == [b EXCEPT !.failure_count = 0] IN
    IF b1.state # CLOSED
    THEN LET b2 == [b1 EXCEPT !.success_count = @ + 1] IN
         IF b2.success_count >= config.success_threshold
         THEN [b2 EXCEPT !.state = CLOSED]
         ELSE b2
    ELSE b1

\* CircuitBreaker._record_success
record_success(b) ==
    LET b1 == [b EXCEPT !.failure_count = 0] IN
    IF b1.state = HALF_OPEN
    THEN LET b2 == [b1 EXCEPT !.success_count = @ + 1] IN
         IF b2.success_count >= config.success_threshold
         THEN [b2 EXCEPT !.state = CLOSED]
         ELSE b2
    ELSE b1

\* _record_failure that opens the breaker one failure late (> for >=).
record_failure_late(b, t) ==
    LET b1 == [b EXCEPT !.failure_count = @ + 1,
                        !.last_failure_time = t,
                        !.success_count = 0] IN
    IF b1.state = HALF_OPEN THEN [b1 EXCEPT !.state = OPEN]
    ELSE IF b1.state = CLOSED /\ b1.failure_count > config.failure_threshold
    THEN [b1 EXCEPT !.state = OPEN]
    ELSE b1

\* _record_failure that does nothing once the breaker is OPEN: the failure of a
\* call admitted before the breaker opened is dropped.
record_failure_dropped_when_open(b, t) ==
    IF b.state = OPEN
    THEN b
    ELSE LET n == b.failure_count + 1 IN
         [state |-> IF b.state = HALF_OPEN \/ n >= config.failure_threshold
                    THEN OPEN ELSE b.state,
          failure_count |-> n, success_count |-> 0, last_failure_time |-> t]

\* _record_failure that stamps last_failure_time only with the first failure.
record_failure_first_time_only(b, t) ==
    LET n == b.failure_count + 1 IN
    [state |-> IF b.state = HALF_OPEN \/ (b.state = CLOSED /\ n >= config.failure_threshold)
               THEN OPEN ELSE b.state,
     failure_count |-> n, success_count |-> 0,
     last_failure_time |-> IF b.last_failure_time = NoTime THEN t
                           ELSE b.last_failure_time]

\* _record_failure without the HALF_OPEN branch: only a CLOSED breaker at its
\* threshold opens, a half-open failure leaves the breaker HALF_OPEN.
record_failure_no_half_open_branch(b, t) ==
    LET b1 == [b EXCEPT !.failure_count = @ + 1,
                        !.last_failure_time = t,
                        !.success_count = 0] IN
    IF b1.state = CLOSED /\ b1.failure_count >= config.failure_threshold
    THEN [b1 EXCEPT !.state = OPEN]
    ELSE b1

\* _record_failure that does not note the time of the failure.
record_failure_no_timestamp(b, t) ==
    LET b1 == [b EXCEPT !.failure_count = @ + 1,
                        !.success_count = 0] IN
    IF b1.state = HALF_OPEN THEN [b1 EXCEPT !.state = OPEN]
    ELSE IF b1.state = CLOSED /\ b1.failure_count >= config.failure_threshold
    THEN [b1 EXCEPT !.state = OPEN]
    ELSE b1

\* CircuitBreaker._record_failure at time t
record_failure(b, t) ==
    LET b1 == [b EXCEPT !.failure_count = @ + 1,
                        !.last_failure_time = t,
                        !.success_count = 0] IN
    IF b1.state = HALF_OPEN THEN [b1 EXCEPT !.state = OPEN]
    ELSE IF b1.state = CLOSED /\ b1.failure_count >= config.failure_threshold
    THEN [b1 EXCEPT !.state = OPEN]
    ELSE b1

\* The dict get_state builds from breaker b at time t.
StateDict(b, t) ==
    [state |-> b.state,
     failure_count |-> b.failure_count,
     success_count |-> b.success_count,
     last_failure_time |-> b.last_failure_time,
     time_since_last_failure |->
        IF b.last_failure_time # NoTime THEN t - b.last_failure_time ELSE NoTime]

\* get_state that first brings the state up to date: an OPEN breaker whose
\* recovery_timeout has elapsed is reported, and made, HALF_OPEN.
get_state_refreshing(b, t) ==
    LET b1 == IF b.state = OPEN /\ t - b.last_failure_time >= config.recovery_timeout
              THEN [b EXCEPT !.state = HALF_OPEN, !.success_count = 0]
              ELSE b
    IN [b |-> b1, ret |-> StateDict(b1, t)]

\* CircuitBreaker.get_state at time t: the breaker afterwards (it assigns
\* nothing) and the dict returned.
get_state(b, t) == [b |-> b, ret |-> StateDict(b, t)]

\* ------------------------------------------------------ timeout-event log

\* record_timeout_event that, once the log is full, keeps the 100 events it has
\* and drops the new one.
record_timeout_event_keep_oldest(log, service_name, operation, timeout_seconds, error, t) ==
    LET appended == Append(log, [service |-> service_name,
                                 operation |-> operation,
                                 timeout_seconds |-> timeout_seconds,
                                 error |-> error,
                                 timestamp |-> t]) IN
    IF Len(appended) > MaxTimeoutEvents
    THEN SubSeq(appended, 1, MaxTimeoutEvents)
    ELSE appended

\* HealthCheckService.record_timeout_event: append, keep the last 100.
record_timeout_event(log, service_name, operation, timeout_seconds, error, t) ==
    LET appended == Append(log, [service |-> service_name,
                                 operation |-> operation,
                                 timeout_seconds |-> timeout_seconds,
                                 error |-> error,
                                 timestamp |-> t]) IN
    IF Len(appended) > MaxTimeoutEvents
    THEN SubSeq(appended, Len(appended) - MaxTimeoutEvents + 1, Len(appended))
    ELSE appended

\* The try/except ImportError around health_service.record_timeout_event.
try_record_timeout_event(log, service_name, operation, timeout_seconds, error, t) ==
    IF health_available
    THEN record_timeout_event(log, service_name, operation, timeout_seconds, error, t)
    ELSE log

\* ------------------------------------------------------- timeout_wrapper

\* How an awaited coroutine ends: it returns val, raises err, or is still pending.
Returned(v) == [kind |-> "returned", val |-> v, err |-> NoErr]
Raised(e)   == [kind |-> "raised", val |-> "", err |-> e]
Pending     == [kind |-> "pending", val |-> "", err |-> NoErr]

AsyncioTimeoutError ==
    [cls |-> "asyncio.TimeoutError", msg |-> "", secs |-> NoTimeout]

\* str(e): the message of an exception, without its class.
Str(e) == [msg |-> e.msg, secs |-> e.secs]

\* Exception(f"Operation timed out after {timeout_seconds} seconds")
OperationTimedOut(timeout_seconds) ==
    [cls |-> "Exception", msg |-> "Operation timed out after secs seconds",
     secs |-> timeout_seconds]

\* wait_for that hands over a result that arrives with the deadline already
\* passed instead of discarding it.
wait_for_late_result(f, timeout, elapsed) ==
    IF elapsed >= timeout /\ f.kind = "pending" THEN Raised(AsyncioTimeoutError) ELSE f

\* wait_for without a deadline: a plain await of the coroutine.
wait_for_no_deadline(f, timeout, elapsed) == f

\* asyncio.wait_for(f, timeout) looked at when `elapsed` ticks have passed since
\* it was awaited: once the timeout has passed the coroutine is cancelled and
\* TimeoutError is raised, whatever the coroutine would have produced.
wait_for(f, timeout, elapsed) ==
    IF elapsed >= timeout THEN Raised(AsyncioTimeoutError) ELSE f

\* The wrapper of timeout_wrapper(timeout_seconds)(func), `elapsed` ticks after
\* it was awaited, func ending as f: what the wrapper gives its caller and the
\* timeout-event log afterwards.
timeout_wrapper(f, op, timeout_seconds, elapsed, log, t) ==
    LET w == wait_for(f, timeout_seconds, elapsed) IN
    IF w.kind = "raised" /\ w.err.cls = "asyncio.TimeoutError"
    THEN [res |-> Raised(OperationTimedOut(timeout_seconds)),
          log |-> try_record_timeout_event(log, "openai", op, timeout_seconds,
                      Str(OperationTimedOut(timeout_seconds)), t)]
    ELSE [res |-> w, log |-> log]

\* What cb.call awaits for call k: func itself, or func under timeout_wrapper.
awaited(f, k, log, t) ==
    IF k.tmo = NoTimeout
    THEN [res |-> f, log |-> log]
    ELSE timeout_wrapper(f, k.op, k.tmo, t - k.started, log, t)

\* ------------------------------------------------- CircuitBreaker.call

\* Exception("Circuit breaker is OPEN - service temporarily unavailable")
CircuitOpenError ==
    [cls |-> "Exception",
     msg |-> "Circuit breaker is OPEN - service temporarily unavailable",
     secs |-> NoTimeout]

\* call() that raises a new Exception(str(e)) in place of the exception caught.
call_complete_new_exception(b, log, r, t) ==
    IF r.kind = "returned"
    THEN [b |-> record_success(b), log |-> log, res |-> r]
    ELSE [b   |-> record_failure(b, t),
          log |-> try_record_timeout_event(log, "openai", "circuit_breaker_call",
                      config.timeout, Str(r.err), t),
          res |-> Raised([cls |-> "Exception", msg |-> r.err.msg, secs |-> r.err.secs])]

\* call() that lets a timeout of timeout_wrapper through without counting it as
\* a failure of the dependency.
call_complete_timeout_not_counted(b, log, r, t) ==
    IF r.kind = "returned"
    THEN [b |-> record_success(b), log |-> log, res |-> r]
    ELSE [b   |-> IF r.err.secs # NoTimeout THEN b ELSE record_failure(b, t),
          log |-> try_record_timeout_event(log, "openai", "circuit_breaker_call",
                      config.timeout, Str(r.err), t),
          res |-> Raised(r.err)]

\* The part of call() after the await, the awaited function having ended as r
\* (returned or raised): the breaker, the log, and what call() gives its caller.
call_complete(b, log, r, t) ==
    IF r.kind = "returned"
    THEN [b |-> record_success(b), log |-> log, res |-> r]
    ELSE [b   |-> record_failure(b, t),
          log |-> try_record_timeout_event(log, "openai", "circuit_breaker_call",
                      config.timeout, Str(r.err), t),
          res |-> Raised(r.err)]

\* ------------------------------------- OpenAIClient.analyze_code and its route

\* OpenAIClient.analyze_code around circuit_breaker.call: a result becomes the
\* success dict, any Exception becomes _fallback_response("analyze_code", str(e)).
analyze_code(r) ==
    IF r.kind = "returned"
    THEN [success |-> TRUE, analysis |-> r.val, error |-> Str(NoErr)]
    ELSE [success |-> FALSE, analysis |-> "fallback", error |-> Str(r.err)]

\* POST /api/analyze/code with the dict analyze_code returned: the route never
\* looks at "success" and answers with a CodeAnalysisResponse.
analyze_route(d) ==
    [status |-> HTTP_OK, code |-> "", success |-> d.success]

\* The exception handlers registered in api/main.py, by exception class.
exception_handler(cls) ==
    IF cls = "TimeoutException"
    THEN [status |-> HTTP_TIMEOUT, code |-> "TIMEOUT_ERROR", success |-> FALSE]
    ELSE IF cls = "CircuitBreakerException"
    THEN [status |-> HTTP_UNAVAILABLE, code |-> "CIRCUIT_BREAKER_OPEN", success |-> FALSE]
    ELSE IF cls = "ServiceUnavailableException"
    THEN [status |-> HTTP_UNAVAILABLE, code |-> "SERVICE_UNAVAILABLE", success |-> FALSE]
    ELSE [status |-> HTTP_INTERNAL, code |-> "INTERNAL_SERVER_ERROR", success |-> FALSE]

NoResponse == [status |-> NoHttp, code |-> "", success |-> FALSE]

\* What the HTTP client gets for a call made through `via` that ended as r.
\* The breaker of the model serves every request, as that of a client kept
\* between requests does.
http_response(via, r) ==
    IF via = "analyze_code" THEN analyze_route(analyze_code(r)) ELSE NoResponse

\* ------------------------------------------------------------ the system

\* func.__name__ of the function each kind of caller hands to the breaker.
FuncName(via) == IF via = "analyze_code" THEN "_analyze_code" ELSE "func"

\* TimeoutManager.get_timeout("analyze_code"), scaled to ticks of the clock.
AnalyzeCodeTimeout == 1

\* The call record of a call made through `via` at time t: analyze_code
\* decorates its function with timeout_wrapper(get_timeout("analyze_code")),
\* a bare caller hands the breaker an undecorated function.
\* ahead is the number of calls that arrived at the breaker earlier and are
\* still in flight.
NewCall(via, t, ahead) ==
    IF via = "analyze_code"
    THEN [via |-> via, op |-> FuncName(via), tmo |-> AnalyzeCodeTimeout, started |-> t,
          ahead |-> ahead]
    ELSE [via |-> via, op |-> FuncName(via), tmo |-> NoTimeout, started |-> NoTime,
          ahead |-> ahead]

NoCall == [via |-> "none", op |-> "", tmo |-> NoTimeout, started |-> NoTime, ahead |-> 0]
NoRes  == [kind |-> "none", val |-> "", err |-> NoErr]
NoSnapshot == StateDict([state |-> "none", failure_count |-> 0, success_count |-> 0,
                         last_failure_time |-> NoTime], 0)

\* The history record of an operation `op` on call k: the breaker,
\* the log length and the time before it; whether it invoked func; how func
\* ended (fn); what the operation gave its caller (res), the HTTP client (http)
\* or, for get_state, the dict returned (ret).
Hist(op, k, invoked, fn, res, http, ret) ==
    [op |-> op, call |-> k, pre |-> Breaker,
     log |-> Len(timeout_events), t |-> now, invoked |-> invoked, fn |-> fn,
     res |-> res, http |-> http, ret |-> ret]

\* The configurations tried: each tunable at its least value and at its bound.
Configs ==
    [failure_threshold : {1, MaxThreshold},
     recovery_timeout  : {1, MaxRecovery},
     success_threshold : {1, MaxThreshold},
     timeout           : {BreakerTimeout}]

\* No TimeoutManager lookup is under way.
NoTm == [env |-> << >>, config |-> << >>, op |-> "", ret |-> NoTimeout]

\* The other components at rest, while the breaker is exercised.
NoHealth == [op |-> "none"]
NoRequest == [op |-> "none"]
AuxInit ==
    /\ tm = NoTm
    /\ recorded = 0
    /\ health = NoHealth
    /\ mw = NoRequest
    /\ clients = << >>

\* CircuitBreaker.__init__, HealthCheckService.__init__
Init ==
    /\ AuxInit
    /\ health_available \in BOOLEAN
    /\ config \in Configs
    /\ state = CLOSED
    /\ failure_count = 0
    /\ success_count = 0
    /\ last_failure_time = NoTime
    /\ now = 1
    /\ timeout_events = << >>
    /\ pc = [c \in Callers |-> "idle"]
    /\ call = [c \in Callers |-> NoCall]
    /\ calls = 0
    /\ consec = 0
    /\ last = Hist("init", NoCall, FALSE, Pending, NoRes, NoResponse, NoSnapshot)

\* The callers are the coroutines suspended in call(), told apart by the order
\* in which the breaker admitted them: the call with n calls ahead of it is
\* that of caller CallerOrder[n + 1].
CallerOrder == <<"c1", "c2">>
Position(c) == CHOOSE n \in DOMAIN CallerOrder : CallerOrder[n] = c
InFlight == Cardinality({d \in Callers : pc[d] = "running"})

\* The calls in flight once that of caller c has left the breaker: those that
\* arrived after it have one call fewer ahead of them.
Leave(c) ==
    [d \in Callers |->
        IF Position(d) < Position(c) THEN call[d]
        ELSE IF Position(d) < InFlight
        THEN [call[CallerOrder[Position(d) + 1]] EXCEPT !.ahead = @ - 1]
        ELSE NoCall]

\* The callers still suspended in call() once one call has left.
Left == [d \in Callers |-> IF Position(d) < InFlight THEN "running" ELSE "idle"]

SetBreaker(b) ==
    /\ state' = b.state
    /\ failure_count' = b.failure_count
    /\ success_count' = b.success_count
    /\ last_failure_time' = b.last_failure_time

\* CircuitBreaker.call up to its await: the admission check, then either the
\* rejection is raised (and, through analyze_code, answered) or func is invoked.
Call(c, via) ==
    /\ pc[c] = "idle"
    /\ Position(c) = InFlight + 1
    /\ calls < MaxCalls
    /\ calls' = calls + 1
    /\ LET a == should_attempt_request(Breaker, now)
           k == NewCall(via, now, InFlight)
       IN
       /\ SetBreaker(a.b)
       /\ IF a.ok
          THEN /\ pc' = [pc EXCEPT ![c] = "running"]
               /\ call' = [call EXCEPT ![c] = k]
               /\ last' = Hist("call", k, TRUE, Pending, NoRes, NoResponse,
                               NoSnapshot)
          ELSE /\ pc' = pc
               /\ call' = call
               /\ last' = Hist("call", k, FALSE, Pending, Raised(CircuitOpenError),
                               http_response(via, Raised(CircuitOpenError)),
                               NoSnapshot)
    /\ UNCHANGED <<health_available, config, now, timeout_events, consec>>
    /\ UNCHANGED aux

\* CircuitBreaker.call from its await on: func (under timeout_wrapper if it is
\* decorated) ends as f, the outcome is recorded, and the caller gets the result
\* or the exception.  f = Pending is func still running when the deadline fires.
Complete(c, f) ==
    /\ LET a == awaited(f, call[c], timeout_events, now) IN
       /\ a.res.kind # "pending"
       /\ LET k == call_complete(Breaker, a.log, a.res, now) IN
          /\ SetBreaker(k.b)
          /\ timeout_events' = k.log
          /\ consec' = IF k.res.kind = "returned" THEN 0 ELSE consec + 1
          /\ last' = Hist(IF k.res.kind = "returned" THEN "success" ELSE "failure",
                          call[c], FALSE, f, k.res,
                          http_response(call[c].via, k.res), NoSnapshot)
    /\ pc' = Left
    /\ call' = Leave(c)
    /\ UNCHANGED <<health_available, config, now, calls>>
    /\ UNCHANGED aux

\* func returns v.
FuncReturns(c, v) ==
    /\ pc[c] = "running"
    /\ Complete(c, Returned(v))

\* func raises e.
FuncRaises(c, e) ==
    /\ pc[c] = "running"
    /\ Complete(c, Raised(e))

\* The deadline of timeout_wrapper fires while func is still running.
DeadlineFires(c) ==
    /\ pc[c] = "running"
    /\ Complete(c, Pending)

\* A cancellation that call() catches like any exception of func (CancelledError
\* as a subclass of Exception): the cancelled call is recorded as a failure.
Cancel_recorded_as_failure(c) ==
    /\ pc[c] = "running"
    /\ call[c].via = "analyze_code"
    /\ pc' = Left
    /\ call' = Leave(c)
    /\ SetBreaker(record_failure(Breaker, now))
    /\ last' = Hist("cancel", call[c], FALSE, Pending, NoRes,
                    exception_handler("TimeoutException"), NoSnapshot)
    /\ UNCHANGED <<health_available, config, now, timeout_events, calls, consec>>
    /\ UNCHANGED aux

\* The request that made the call is cancelled while call() is suspended in its
\* await (the route's asyncio.wait_for around analyze_code, or TimeoutMiddleware):
\* CancelledError is not an Exception, so call() records nothing.
Cancel(c) ==
    /\ pc[c] = "running"
    /\ call[c].via = "analyze_code"
    /\ pc' = Left
    /\ call' = Leave(c)
    /\ last' = Hist("cancel", call[c], FALSE, Pending, NoRes,
                    exception_handler("TimeoutException"), NoSnapshot)
    /\ UNCHANGED <<health_available, config, state, failure_count, success_count,
                   last_failure_time, now, timeout_events, calls, consec>>
    /\ UNCHANGED aux

\* CircuitBreaker.get_state
GetState ==
    /\ LET g == get_state(Breaker, now) IN
       /\ SetBreaker(g.b)
       /\ last' = Hist("get_state", NoCall, FALSE, Pending, NoRes, NoResponse, g.ret)
    /\ UNCHANGED <<health_available, config, now, timeout_events, pc, call, calls,
                   consec>>
    /\ UNCHANGED aux

\* Time passes.  asyncio.wait_for fires at its deadline: the clock does not
\* move past the deadline of a call that is still suspended under one.
Tick ==
    /\ now < MaxTime
    /\ \A c \in Callers :
          (pc[c] = "running" /\ call[c].tmo # NoTimeout)
              => now - call[c].started < call[c].tmo
    /\ now' = now + 1
    /\ last' = Hist("tick", NoCall, FALSE, Pending, NoRes, NoResponse, NoSnapshot)
    /\ UNCHANGED <<health_available, config, state, failure_count, success_count,
                   last_failure_time, timeout_events, pc, call, calls, consec>>
    /\ UNCHANGED aux

Next ==
    \/ \E c \in Callers, via \in Vias : Call(c, via)
    \/ \E c \in Callers, v \in Values : FuncReturns(c, v)
    \/ \E c \in Callers, e \in Errors : FuncRaises(c, e)
    \/ \E c \in Callers : DeadlineFires(c)
    \/ \E c \in Callers : Cancel(c)
    \/ GetState
    \/ Tick

Spec == Init /\ [][Next]_vars

\* The breaker at rest, while another component is exercised.
CoreInit ==
    /\ health_available = TRUE
    /\ config = [failure_threshold |-> 1, recovery_timeout |-> 1,
                 success_threshold |-> 1, timeout |-> BreakerTimeout]
    /\ state = CLOSED
    /\ failure_count = 0
    /\ success_count = 0
    /\ last_failure_time = NoTime
    /\ now = 1
    /\ timeout_events = << >>
    /\ pc = [c \in Callers |-> "idle"]
    /\ call = [c \in Callers |-> NoCall]
    /\ calls = 0
    /\ consec = 0
    /\ last = Hist("init", NoCall, FALSE, Pending, NoRes, NoResponse, NoSnapshot)

\* --------------------------------------------------------- TimeoutManager

\* The operations get_timeout has an entry for, and two it has none for.
KnownOperations == {"analyze_code", "generate_code", "explain_code", "optimize_code",
                    "generate_tests", "test_connection"}
Operations == KnownOperations \cup {"unknown_operation", ""}

\* The field of TimeoutConfig each environment variable sets.
EnvField ==
    [OPENAI_DEFAULT_TIMEOUT         |-> "default_timeout",
     OPENAI_ANALYZE_CODE_TIMEOUT    |-> "analyze_code_timeout",
     OPENAI_GENERATE_CODE_TIMEOUT   |-> "generate_code_timeout",
     OPENAI_EXPLAIN_CODE_TIMEOUT    |-> "explain_code_timeout",
     OPENAI_OPTIMIZE_CODE_TIMEOUT   |-> "optimize_code_timeout",
     OPENAI_GENERATE_TESTS_TIMEOUT  |-> "generate_tests_timeout",
     OPENAI_TEST_CONNECTION_TIMEOUT |-> "test_connection_timeout"]

\* float(s) for the strings met: the second argument of each os.getenv of
\* _load_config and the values the environment may hold.
Float ==
    [x \in {"10.0", "30.0", "45.0", "60.0", "75.0", "90.0", "120.0", "5.0", "200.0"} |->
        CASE x = "10.0" -> 10 [] x = "30.0" -> 30 [] x = "45.0" -> 45
          [] x = "60.0" -> 60 [] x = "75.0" -> 75 [] x = "90.0" -> 90
          [] x = "120.0" -> 120 [] x = "5.0" -> 5 [] x = "200.0" -> 200]

\* os.getenv(name, default) in environment env
getenv(env, name, default) == IF name \in DOMAIN env THEN env[name] ELSE default

\* TimeoutManager._load_config
load_config(env) ==
    [default_timeout         |-> Float[getenv(env, "OPENAI_DEFAULT_TIMEOUT", "30.0")],
     analyze_code_timeout    |-> Float[getenv(env, "OPENAI_ANALYZE_CODE_TIMEOUT", "60.0")],
     generate_code_timeout   |-> Float[getenv(env, "OPENAI_GENERATE_CODE_TIMEOUT", "90.0")],
     explain_code_timeout    |-> Float[getenv(env, "OPENAI_EXPLAIN_CODE_TIMEOUT", "45.0")],
     optimize_code_timeout   |-> Float[getenv(env, "OPENAI_OPTIMIZE_CODE_TIMEOUT", "75.0")],
     generate_tests_timeout  |-> Float[getenv(env, "OPENAI_GENERATE_TESTS_TIMEOUT", "120.0")],
     test_connection_timeout |-> Float[getenv(env, "OPENAI_TEST_CONNECTION_TIMEOUT", "10.0")]]

\* get_timeout whose fallback for an unknown operation is the literal 30.0 and
\* not the configured default_timeout.
get_timeout_literal_default(cfg, operation) ==
    IF operation \in KnownOperations
    THEN cfg[operation \o "_timeout"]
    ELSE Float["30.0"]

\* TimeoutManager.get_timeout: timeout_map.get(operation, default_timeout)
get_timeout(cfg, operation) ==
    LET timeout_map ==
            [analyze_code    |-> cfg.analyze_code_timeout,
             generate_code   |-> cfg.generate_code_timeout,
             explain_code    |-> cfg.explain_code_timeout,
             optimize_code   |-> cfg.optimize_code_timeout,
             generate_tests  |-> cfg.generate_tests_timeout,
             test_connection |-> cfg.test_connection_timeout]
    IN IF operation \in DOMAIN timeout_map
       THEN timeout_map[operation]
       ELSE cfg.default_timeout

\* The environments tried: any of three variables set, each to one of two values.
EnvNames  == {"OPENAI_DEFAULT_TIMEOUT", "OPENAI_ANALYZE_CODE_TIMEOUT",
              "OPENAI_TEST_CONNECTION_TIMEOUT"}
EnvValues == {"5.0", "200.0"}
Envs == UNION {[S -> EnvValues] : S \in SUBSET EnvNames}

\* TimeoutManager.__init__ in each environment
InitTM ==
    /\ CoreInit
    /\ \E env \in Envs :
          tm = [env |-> env, config |-> load_config(env), op |-> "", ret |-> NoTimeout]
    /\ recorded = 0
    /\ health = NoHealth
    /\ mw = NoRequest
    /\ clients = << >>

\* manager.get_timeout(operation)
GetTimeout(operation) ==
    /\ tm' = [tm EXCEPT !.op = operation, !.ret = get_timeout(tm.config, operation)]
    /\ UNCHANGED <<core, recorded, health, mw, clients>>

NextTM == \E operation \in Operations : GetTimeout(operation)

SpecTM == InitTM /\ [][NextTM]_vars

\* ------------------------------------------------- the timeout-event log

\* How many recordings a behaviour of the log makes.
MaxRecordings == 150

\* HealthCheckService.__init__: the log is empty
InitLog ==
    /\ CoreInit
    /\ AuxInit

\* One health_service.record_timeout_event(...), as timeout_wrapper makes it;
\* the timestamp of the n-th recording is n.
RecordTimeoutEvent ==
    /\ recorded < MaxRecordings
    /\ recorded' = recorded + 1
    /\ timeout_events' =
          record_timeout_event(timeout_events, "openai", "_analyze_code",
                               config.timeout, Str(OperationTimedOut(config.timeout)),
                               recorded + 1)
    /\ UNCHANGED <<health_available, config, state, failure_count, success_count,
                   last_failure_time, now, pc, call, calls, consec, last>>
    /\ UNCHANGED <<tm, health, mw, clients>>

NextLog == RecordTimeoutEvent

SpecLog == InitLog /\ [][NextLog]_vars

\* ------------------------------------------------------ health checks

\* HealthCheckService.services, in the order of the dict.
ServiceNames == <<"openai", "github", "github_extended", "action_bus">>
\* The services probed with test_connection(), each through its own breaker.
Probed == {"openai", "github", "github_extended"}

\* How a test_connection() can end: a dict with success True, a dict with
\* success False, or an exception.
ProbeOutcomes == {"ok", "fail", "raises"}

\* What test_connection() of a service gives for an outcome ("" is an absent key).
probe(service_name, outcome) ==
    IF outcome = "raises"
    THEN [kind |-> "raised", success |-> FALSE, error |-> "", message |-> "",
          exc |-> "probe exploded"]
    ELSE IF outcome = "ok"
    THEN [kind |-> "returned", success |-> TRUE, error |-> "",
          message |-> "connection successful", exc |-> ""]
    ELSE IF service_name = "openai"
    THEN [kind |-> "returned", success |-> FALSE,
          error |-> "No OpenAI API key configured", message |-> "", exc |-> ""]
    ELSE [kind |-> "returned", success |-> FALSE, error |-> "",
          message |-> "GitHub token not configured", exc |-> ""]

\* _check_service_health without its except clause: the exception of a probe
\* goes on to the caller.
check_service_health_propagates(service_name, outcome) ==
    LET result == probe(service_name, outcome) IN
    IF service_name = "action_bus"
    THEN [kind |-> "returned", name |-> service_name, status |-> "healthy",
          error_message |-> ""]
    ELSE IF result.kind = "raised"
    THEN [kind |-> "raised", name |-> service_name, status |-> "",
          error_message |-> result.exc]
    ELSE [kind |-> "returned", name |-> service_name,
          status |-> IF result.success THEN "healthy" ELSE "unhealthy",
          error_message |-> IF result.success THEN ""
                            ELSE IF service_name = "openai" THEN result.error
                            ELSE result.message]

\* HealthCheckService._check_service_health: the ServiceHealth of one service.
check_service_health(service_name, outcome) ==
    LET result == probe(service_name, outcome) IN
    IF service_name = "action_bus"
    THEN [kind |-> "returned", name |-> service_name, status |-> "healthy",
          error_message |-> ""]
    ELSE IF result.kind = "raised"
    THEN [kind |-> "returned", name |-> service_name, status |-> "unhealthy",
          error_message |-> result.exc]
    ELSE [kind |-> "returned", name |-> service_name,
          status |-> IF result.success THEN "healthy" ELSE "unhealthy",
          error_message |-> IF result.success THEN ""
                            ELSE IF service_name = "openai" THEN result.error
                            ELSE result.message]

\* HealthCheckService._determine_overall_status
determine_overall_status(service_healths) ==
    LET unhealthy_count ==
            Cardinality({i \in DOMAIN service_healths :
                            service_healths[i].status = "unhealthy"})
        degraded_count ==
            Cardinality({i \in DOMAIN service_healths :
                            service_healths[i].status = "degraded"})
    IN IF unhealthy_count > 0 THEN "unhealthy"
       ELSE IF degraded_count > 0 \/ unhealthy_count > 0 THEN "degraded"
       ELSE "healthy"

\* HealthCheckService._get_circuit_breaker_states: the state of the breaker of
\* every service that has one.
get_circuit_breaker_states(breakers) == breakers

\* The events of the log not older than 24 hours; the log is given by how many
\* of its events are older and how many are not.
recent_timeouts(log) == log.recent

\* HealthCheckService.check_overall_health: the SystemHealth it returns.
check_overall_health(probes, breakers, log) ==
    LET service_healths ==
            [i \in DOMAIN ServiceNames |->
                check_service_health(ServiceNames[i],
                    IF ServiceNames[i] \in Probed THEN probes[ServiceNames[i]]
                    ELSE "ok")]
    IN IF \E i \in DOMAIN service_healths : service_healths[i].kind = "raised"
       THEN [kind |-> "SystemHealth", status |-> "unhealthy", services |-> << >>,
             circuit_breakers |-> << >>]
       ELSE [kind |-> "SystemHealth",
             status |-> determine_overall_status(service_healths),
             services |-> service_healths,
             circuit_breakers |-> get_circuit_breaker_states(breakers)]

\* HealthCheckService.check_timeout_health
check_timeout_health(log) ==
    [status |-> IF recent_timeouts(log) < 10 THEN "healthy" ELSE "degraded",
     total_recent_timeouts |-> recent_timeouts(log)]

\* HealthCheckService.check_circuit_breakers_health
check_circuit_breakers_health(breakers) ==
    LET circuit_breakers == get_circuit_breaker_states(breakers)
        unhealthy_breakers == {n \in DOMAIN circuit_breakers : circuit_breakers[n] = OPEN}
    IN [status |-> IF unhealthy_breakers = {} THEN "healthy" ELSE "degraded",
        unhealthy_breakers |-> unhealthy_breakers]

\* HealthCheckService.check_services_health
check_services_health(probes) ==
    [n \in Probed \cup {"action_bus"} |->
        check_service_health(n, IF n \in Probed THEN probes[n] ELSE "ok")]

\* The numbers of events tried on each side of the 24-hour window.
EventCounts == {0, 9, 10, 11}

\* The breaker states a probe outcome can leave behind: a probe that went
\* through its breaker and succeeded has not left the breaker OPEN.
BreakerStatesAfter(outcome) ==
    IF outcome = "ok" THEN {CLOSED, HALF_OPEN} ELSE {CLOSED, OPEN, HALF_OPEN}

\* The situations a health check can meet.
InitHealth ==
    /\ CoreInit
    /\ tm = NoTm
    /\ recorded = 0
    /\ mw = NoRequest
    /\ clients = << >>
    /\ \E probes \in [Probed -> ProbeOutcomes], breakers \in [Probed -> {CLOSED, OPEN, HALF_OPEN}],
          old \in {0, 11}, recent \in EventCounts :
          /\ \A n \in Probed : breakers[n] \in BreakerStatesAfter(probes[n])
          /\ health = [op |-> "none", probes |-> probes, breakers |-> breakers,
                       log |-> [old |-> old, recent |-> recent],
                       status |-> "", services |-> << >>, http |-> NoHttp]

HealthUnchanged ==
    UNCHANGED <<core, tm, recorded, mw, clients>>

\* GET /health
GetOverallHealth ==
    /\ LET h == check_overall_health(health.probes, health.breakers, health.log) IN
          health' = [health EXCEPT !.op = "overall", !.status = h.status,
                        !.services = h.services,
                        !.http = IF h.status = "unhealthy" THEN HTTP_UNAVAILABLE
                                 ELSE HTTP_OK]
    /\ HealthUnchanged

\* GET /health/timeout
GetTimeoutHealth ==
    /\ LET h == check_timeout_health(health.log) IN
          health' = [health EXCEPT !.op = "timeout", !.status = h.status,
                        !.services = << >>,
                        !.http = IF h.status = "healthy" THEN HTTP_OK
                                 ELSE HTTP_UNAVAILABLE]
    /\ HealthUnchanged

\* GET /health/services: the answer has no status of its own; the worst of the
\* services' statuses is kept as the status reported.
GetServicesHealth ==
    /\ LET h == check_services_health(health.probes)
           unhealthy_services == {n \in DOMAIN h : h[n].status = "unhealthy"}
       IN health' = [health EXCEPT !.op = "services",
                        !.status = IF unhealthy_services = {} THEN "healthy"
                                   ELSE "unhealthy",
                        !.services = [i \in DOMAIN ServiceNames |-> h[ServiceNames[i]]],
                        !.http = IF unhealthy_services = {} THEN HTTP_OK
                                 ELSE HTTP_UNAVAILABLE]
    /\ HealthUnchanged

\* GET /health/circuit-breakers
GetCircuitBreakersHealth ==
    /\ LET h == check_circuit_breakers_health(health.breakers) IN
          health' = [health EXCEPT !.op = "circuit-breakers", !.status = h.status,
                        !.services = << >>,
                        !.http = IF h.status = "healthy" THEN HTTP_OK
                                 ELSE HTTP_UNAVAILABLE]
    /\ HealthUnchanged

NextHealth ==
    \/ GetOverallHealth
    \/ GetTimeoutHealth
    \/ GetServicesHealth
    \/ GetCircuitBreakersHealth

SpecHealth == InitHealth /\ [][NextHealth]_vars

\* ---------------------------------------------------- TimeoutMiddleware

\* route_timeouts as api/main.py configures it, and as the tests do.
MainRouteTimeouts ==
    ("POST:/api/analyze/code" :> 45) @@ ("POST:/api/analyze/explain" :> 35) @@
    ("POST:/api/analyze/refactor" :> 60) @@ ("POST:/api/analyze/apply" :> 45) @@
    ("POST:/api/generate/test" :> 60) @@ ("POST:/api/generate/coverage" :> 30) @@
    ("GET:/api/workflow/flow/{owner}/{repo}" :> 30) @@
    ("POST:/api/workflow/actions" :> 60) @@ ("POST:/api/workflow/events" :> 30) @@
    ("POST:/api/workflow/specs" :> 30)
TestRouteTimeouts == ("POST:/api/test" :> 10) @@ ("GET:/api/health" :> 5)

\* TimeoutMiddleware.__init__: the configurations tried.
MwConfigs ==
    {[default_timeout |-> 30, route_timeouts |-> MainRouteTimeouts],
     [default_timeout |-> 20, route_timeouts |-> MainRouteTimeouts],
     [default_timeout |-> 30, route_timeouts |-> TestRouteTimeouts]}

\* The requests tried: request.method and request.url.path.
Methods == {"GET", "POST"}
Paths == {"/api/analyze/code", "/api/workflow/flow/{owner}/{repo}",
          "/api/workflow/flow/acme/widgets", "/api/test", "/api/unknown"}

\* The path template a concrete path is an instance of.
Template(path) ==
    IF path = "/api/workflow/flow/acme/widgets"
    THEN "/api/workflow/flow/{owner}/{repo}"
    ELSE path

\* _get_timeout_for_route that matches the path against the templates configured.
get_timeout_for_route_by_template(cfg, path, method) ==
    LET route_key == method \o ":" \o Template(path) IN
    IF route_key \in DOMAIN cfg.route_timeouts
    THEN cfg.route_timeouts[route_key]
    ELSE cfg.default_timeout

\* TimeoutMiddleware._get_timeout_for_route
get_timeout_for_route(cfg, path, method) ==
    LET route_key == method \o ":" \o path IN
    IF route_key \in DOMAIN cfg.route_timeouts
    THEN cfg.route_timeouts[route_key]
    ELSE cfg.default_timeout

\* TimeoutException(message, details) as dispatch raises it.
TimeoutException(timeout_seconds, duration, path, method) ==
    [cls |-> "TimeoutException", error_code |-> "TIMEOUT_ERROR",
     status_code |-> HTTP_TIMEOUT,
     details |-> [timeout_limit |-> timeout_seconds, actual_duration |-> duration,
                  path |-> path, method |-> method]]

\* What the downstream handler can raise: an error of its own, or a
\* TimeoutError that escaped it.
HandlerErrors == {[cls |-> "ValueError", msg |-> "bad request", secs |-> NoTimeout],
                  AsyncioTimeoutError}

\* dispatch that, on a timeout, gives the handler a second try before giving up.
dispatch_complete_retrying(f, timeout_seconds, elapsed, path, method) ==
    LET w == wait_for(f, timeout_seconds, elapsed) IN
    IF w.kind = "raised" /\ w.err.cls = "asyncio.TimeoutError"
    THEN [res |-> [kind |-> "raised", val |-> "",
                   err |-> TimeoutException(timeout_seconds, elapsed, path, method)],
          invocations |-> 2]
    ELSE [res |-> w, invocations |-> 1]

\* TimeoutMiddleware.dispatch from its await on, `elapsed` seconds after
\* start_time, the handler ending as f: what dispatch gives its caller, and how
\* many times it called call_next.
dispatch_complete(f, timeout_seconds, elapsed, path, method) ==
    LET w == wait_for(f, timeout_seconds, elapsed) IN
    IF w.kind = "raised" /\ w.err.cls = "asyncio.TimeoutError"
    THEN [res |-> [kind |-> "raised", val |-> "",
                   err |-> TimeoutException(timeout_seconds, elapsed, path, method)],
          invocations |-> 1]
    ELSE [res |-> w, invocations |-> 1]

\* TimeoutMiddleware.__init__
InitMW ==
    /\ CoreInit
    /\ tm = NoTm
    /\ recorded = 0
    /\ health = NoHealth
    /\ clients = << >>
    /\ \E cfg \in MwConfigs :
          mw = [op |-> "idle", cfg |-> cfg, method |-> "", path |-> "",
                timeout_seconds |-> NoTimeout, elapsed |-> 0, invocations |-> 0,
                fn |-> Pending, res |-> NoRes]

MwUnchanged ==
    UNCHANGED <<core, tm, recorded, health, clients>>

\* dispatch up to its await: the timeout is resolved, call_next is called.
Dispatch(method, path) ==
    /\ mw.op = "idle"
    /\ mw' = [mw EXCEPT !.op = "running", !.method = method, !.path = path,
                        !.timeout_seconds = get_timeout_for_route(mw.cfg, path, method)]
    /\ MwUnchanged

\* A second passes with the handler still running; asyncio.wait_for fires at
\* its deadline, so time does not pass beyond it.
MwTick ==
    /\ mw.op = "running"
    /\ mw.elapsed < mw.timeout_seconds
    /\ mw' = [mw EXCEPT !.elapsed = @ + 1]
    /\ MwUnchanged

\* dispatch from its await on, the handler ending as f.
MwComplete(f) ==
    /\ LET w == wait_for(f, mw.timeout_seconds, mw.elapsed) IN w.kind # "pending"
    /\ LET d == dispatch_complete(f, mw.timeout_seconds, mw.elapsed, mw.path, mw.method) IN
          mw' = [mw EXCEPT !.op = "done", !.fn = f, !.res = d.res,
                           !.invocations = d.invocations]
    /\ MwUnchanged

\* The handler returns a response.
HandlerReturns ==
    /\ mw.op = "running"
    /\ MwComplete(Returned("response"))

\* The handler raises.
HandlerRaises(e) ==
    /\ mw.op = "running"
    /\ MwComplete(Raised(e))

\* The deadline fires with the handler still running.
MwDeadlineFires ==
    /\ mw.op = "running"
    /\ MwComplete(Pending)

NextMW ==
    \/ \E method \in Methods, path \in Paths : Dispatch(method, path)
    \/ MwTick
    \/ HandlerReturns
    \/ \E e \in HandlerErrors : HandlerRaises(e)
    \/ MwDeadlineFires

SpecMW == InitMW /\ [][NextMW]_vars

\* ------------------------------------------- the clients of the OpenAI API

\* max_retries of POST /api/analyze/code
max_retries == 3

\* CircuitBreaker.__init__
CircuitBreaker ==
    [state |-> CLOSED, failure_count |-> 0, success_count |-> 0,
     last_failure_time |-> NoTime]

\* OpenAIClient.__init__: the client builds a CircuitBreaker of its own.
\* attempt is the pass of the retry loop the request that owns it is in.
OpenAIClient == [circuit_breaker |-> CircuitBreaker, attempt |-> 0]

\* CircuitBreaker.call as one step, func ending as r: the admission check, then
\* the recording of the outcome.
circuit_breaker_call(b, log, r, t) ==
    LET a == should_attempt_request(b, t) IN
    IF a.ok
    THEN call_complete(a.b, log, r, t)
    ELSE [b |-> a.b, log |-> log, res |-> Raised(CircuitOpenError)]

\* The record of a call made through client cl by `by` (a request or the health
\* probe): the breaker that admitted and counted it, before and after.
ClientCall(by, pre, k) ==
    [op |-> "call", by |-> by, pre |-> pre, post |-> k.b, res |-> k.res,
     ret |-> NoSnapshot]

\* The process after the import of services.health: health_service holds the
\* only OpenAIClient, clients[1]; no request is in flight.
InitClients ==
    /\ tm = NoTm
    /\ recorded = 0
    /\ health = NoHealth
    /\ mw = NoRequest
    /\ clients = <<OpenAIClient>>
    /\ health_available = TRUE
    /\ config \in Configs
    /\ state = CLOSED
    /\ failure_count = 0
    /\ success_count = 0
    /\ last_failure_time = NoTime
    /\ now = 1
    /\ timeout_events = << >>
    /\ pc = [c \in Callers |-> "idle"]
    /\ call = [c \in Callers |-> NoCall]
    /\ calls = 0
    /\ consec = 0
    /\ last = [op |-> "init", by |-> "", pre |-> CircuitBreaker,
               post |-> CircuitBreaker, res |-> NoRes, ret |-> NoSnapshot]

ClientsUnchanged ==
    UNCHANGED <<health_available, config, state, failure_count, success_count,
                last_failure_time, pc, call, tm, recorded, health, mw>>

\* The clients left when the request that owns clients[i] has ended.
Drop(i) == [j \in 1..(Len(clients) - 1) |-> IF j < i THEN clients[j] ELSE clients[j + 1]]

\* POST /api/analyze/code arrives: the route constructs its OpenAIClient.
RequestArrives ==
    /\ calls < MaxCalls
    /\ Len(clients) <= Cardinality(Callers)
    /\ calls' = calls + 1
    /\ clients' = Append(clients, OpenAIClient)
    /\ last' = [op |-> "request", by |-> "request", pre |-> CircuitBreaker,
                post |-> CircuitBreaker, res |-> NoRes, ret |-> NoSnapshot]
    /\ UNCHANGED <<now, timeout_events, consec>>
    /\ ClientsUnchanged

\* openai_client.analyze_code of the request that owns clients[i] ends, the API
\* call having ended as r: the outcome goes to the breaker of that client,
\* analyze_code returns a dict either way, and the request ends.
AttemptEnds(i, r) ==
    /\ i \in 2..Len(clients)
    /\ LET k == circuit_breaker_call(clients[i].circuit_breaker, timeout_events, r, now) IN
       /\ timeout_events' = k.log
       /\ consec' = IF k.res.kind = "returned" THEN 0 ELSE consec + 1
       /\ last' = ClientCall("request", clients[i].circuit_breaker, k)
    /\ clients' = Drop(i)
    /\ UNCHANGED <<now, calls>>
    /\ ClientsUnchanged

AttemptReturns(i, v) == AttemptEnds(i, Returned(v))

AttemptRaises(i, e) == AttemptEnds(i, Raised(e))

\* The route's wait_for(analyze_code, 30.0) fires: the call is cancelled, its
\* breaker records nothing, and the loop retries with the same client or, on
\* the last pass, raises TimeoutException.
AttemptTimesOut(i) ==
    /\ i \in 2..Len(clients)
    /\ clients' = IF clients[i].attempt = max_retries - 1 THEN Drop(i)
                  ELSE [clients EXCEPT ![i].attempt = @ + 1]
    /\ last' = [op |-> "cancelled", by |-> "request", pre |-> clients[i].circuit_breaker,
                post |-> clients[i].circuit_breaker, res |-> NoRes, ret |-> NoSnapshot]
    /\ UNCHANGED <<now, calls, timeout_events, consec>>
    /\ ClientsUnchanged

\* A probe that asks the dependency directly, without going through the breaker
\* of health_service's client.
HealthProbe_past_breaker(r) ==
    /\ calls < MaxCalls
    /\ calls' = calls + 1
    /\ last' = ClientCall("probe", clients[1].circuit_breaker,
                          [b |-> clients[1].circuit_breaker, res |-> r])
    /\ UNCHANGED <<now, clients, timeout_events, consec>>
    /\ ClientsUnchanged

\* _check_service_health("openai"): test_connection of health_service's client,
\* the API call ending as r.
HealthProbe(r) ==
    /\ calls < MaxCalls
    /\ calls' = calls + 1
    /\ LET k == circuit_breaker_call(clients[1].circuit_breaker, timeout_events, r, now) IN
       /\ clients' = [clients EXCEPT ![1].circuit_breaker = k.b]
       /\ timeout_events' = k.log
       /\ consec' = IF k.res.kind = "raised" /\ k.res.err # CircuitOpenError THEN consec + 1
                    ELSE IF k.res.kind = "returned" THEN 0 ELSE consec
       /\ last' = ClientCall("probe", clients[1].circuit_breaker, k)
    /\ UNCHANGED now
    /\ ClientsUnchanged

\* _get_circuit_breaker_states for "openai": get_state of the breaker of
\* health_service's client, as put into SystemHealth.circuit_breakers.
BreakerSnapshot ==
    /\ last.op # "snapshot"
    /\ LET g == get_state(clients[1].circuit_breaker, now) IN
       /\ clients' = [clients EXCEPT ![1].circuit_breaker = g.b]
       /\ last' = [op |-> "snapshot", by |-> "probe", pre |-> clients[1].circuit_breaker,
                   post |-> g.b, res |-> NoRes, ret |-> g.ret]
    /\ UNCHANGED <<now, calls, timeout_events, consec>>
    /\ ClientsUnchanged

ClientsTick ==
    /\ now < MaxTime
    /\ now' = now + 1
    /\ last' = [op |-> "tick", by |-> "", pre |-> CircuitBreaker,
                post |-> CircuitBreaker, res |-> NoRes, ret |-> NoSnapshot]
    /\ UNCHANGED <<calls, timeout_events, consec, clients>>
    /\ ClientsUnchanged

NextClients ==
    \/ RequestArrives
    \/ \E i \in 2..Len(clients), v \in Values : AttemptReturns(i, v)
    \/ \E i \in 2..Len(clients), e \in Errors : AttemptRaises(i, e)
    \/ \E i \in 2..Len(clients) : AttemptTimesOut(i)
    \/ \E v \in Values : HealthProbe(Returned(v))
    \/ \E e \in Errors : HealthProbe(Raised(e))
    \/ BreakerSnapshot
    \/ ClientsTick

SpecClients == InitClients /\ [][NextClients]_vars

\* -------------------------------------- check_overall_health, probe by probe

\* The deadline of a test_connection(), in ticks: get_timeout("test_connection")
\* under timeout_wrapper (openai), aiohttp.ClientTimeout(total) (github),
\* httpx.Timeout (github_extended).
ProbeTimeout == 2

\* How a dependency behaves when probed: it answers `after` ticks after the
\* request with one of the outcomes, or it never answers.
Never == [outcome |-> "never", after |-> 0]
Behaviours ==
    {[outcome |-> o, after |-> d] : o \in ProbeOutcomes, d \in 0..ProbeTimeout}
        \cup {Never}

\* What the awaited request of a probe has produced `waited` ticks after it was
\* sent to a dependency that behaves as bh.
answer(bh, waited) ==
    IF bh.outcome = "never" \/ waited < bh.after THEN Pending
    ELSE IF bh.outcome = "raises"
    THEN Raised([cls |-> "Exception", msg |-> "probe exploded", secs |-> NoTimeout])
    ELSE Returned(bh.outcome)

\* test_connection() of a probed service, looked at `waited` ticks after it was
\* awaited: still pending, or ended with one of ProbeOutcomes. A deadline that
\* fires is caught in test_connection, which returns a dict with success False.
test_connection(bh, waited) ==
    LET w == wait_for(answer(bh, waited), ProbeTimeout, waited) IN
    IF w.kind = "pending" THEN "pending"
    ELSE IF w.kind = "raised" /\ w.err.cls = "asyncio.TimeoutError" THEN "fail"
    ELSE IF w.kind = "raised" THEN "raises"
    ELSE w.val

\* check_overall_health has just been called: no service is checked yet.
InitCheck ==
    /\ CoreInit
    /\ tm = NoTm
    /\ recorded = 0
    /\ mw = NoRequest
    /\ clients = << >>
    /\ \E behave \in [Probed -> Behaviours] :
          health = [op |-> "checking", behave |-> behave, waited |-> 0,
                    services |-> << >>, status |-> ""]

\* The service whose _check_service_health is awaited.
Checked == ServiceNames[Len(health.services) + 1]

\* Time passes while the test_connection() of a service is awaited.
ProbeWaits ==
    /\ health.op = "checking"
    /\ Len(health.services) < Len(ServiceNames)
    /\ Checked \in Probed
    /\ health.waited < ProbeTimeout
    /\ test_connection(health.behave[Checked], health.waited) = "pending"
    /\ health' = [health EXCEPT !.waited = @ + 1]
    /\ HealthUnchanged

\* The test_connection() awaited ends, by an answer or by its deadline, and
\* _check_service_health returns the ServiceHealth.
ProbeEnds ==
    /\ health.op = "checking"
    /\ Len(health.services) < Len(ServiceNames)
    /\ Checked \in Probed
    /\ LET outcome == test_connection(health.behave[Checked], health.waited) IN
       /\ outcome # "pending"
       /\ health' = [health EXCEPT
                        !.services = Append(@, check_service_health(Checked, outcome)),
                        !.waited = 0]
    /\ HealthUnchanged

\* _check_service_health of action_bus: nothing is awaited.
UnprobedChecked ==
    /\ health.op = "checking"
    /\ Len(health.services) < Len(ServiceNames)
    /\ Checked \notin Probed
    /\ health' = [health EXCEPT
                    !.services = Append(@, check_service_health(Checked, "ok"))]
    /\ HealthUnchanged

\* Every service is checked: check_overall_health returns its SystemHealth.
CheckReturns ==
    /\ health.op = "checking"
    /\ Len(health.services) = Len(ServiceNames)
    /\ health' = [health EXCEPT !.op = "returned",
                     !.status = determine_overall_status(health.services)]
    /\ HealthUnchanged

NextCheck ==
    \/ ProbeWaits
    \/ ProbeEnds
    \/ UnprobedChecked
    \/ CheckReturns

\* The event loop runs whatever is ready and the clock advances.
SpecCheck == InitCheck /\ [][NextCheck]_vars /\ WF_vars(NextCheck)

\* ------------------------------------------- recovery of the dependency

\* The breaker is OPEN after a failure at time 1, with up to two calls that were
\* admitted before it opened still in flight; from now on the dependency
\* answers every call.
InitRecovery ==
    /\ AuxInit
    /\ health_available = TRUE
    /\ config \in Configs
    /\ state = OPEN
    /\ failure_count \in config.failure_threshold..MaxThreshold
    /\ success_count = 0
    /\ last_failure_time = 1
    /\ now = 1
    /\ timeout_events = << >>
    /\ \E n \in 0..Len(CallerOrder) :
          /\ pc = [c \in Callers |-> IF Position(c) <= n THEN "running" ELSE "idle"]
          /\ call = [c \in Callers |->
                        IF Position(c) <= n THEN NewCall("direct", 1, Position(c) - 1)
                        ELSE NoCall]
    /\ calls = 0
    /\ consec = 0
    /\ last = Hist("init", NoCall, FALSE, Pending, NoRes, NoResponse, NoSnapshot)

\* A caller calls: the admission check of call(), and func is invoked if the
\* call is admitted.
RecoveryCall(c) ==
    /\ pc[c] = "idle"
    /\ Position(c) = InFlight + 1
    /\ LET a == should_attempt_request(Breaker, now) IN
       /\ SetBreaker(a.b)
       /\ IF a.ok
          THEN /\ pc' = [pc EXCEPT ![c] = "running"]
               /\ call' = [call EXCEPT ![c] = NewCall("direct", now, InFlight)]
          ELSE UNCHANGED <<pc, call>>
    /\ UNCHANGED <<health_available, config, now, timeout_events, calls, consec, last>>
    /\ UNCHANGED aux

\* func returns v: call() records the success.
RecoveryReturn(c, v) ==
    /\ pc[c] = "running"
    /\ LET k == call_complete(Breaker, timeout_events, Returned(v), now) IN
       /\ SetBreaker(k.b)
       /\ timeout_events' = k.log
    /\ pc' = Left
    /\ call' = Leave(c)
    /\ UNCHANGED <<health_available, config, now, calls, consec, last>>
    /\ UNCHANGED aux

\* Time passes.
RecoveryTick ==
    /\ now < MaxTime
    /\ now' = now + 1
    /\ UNCHANGED <<health_available, config, state, failure_count, success_count,
                   last_failure_time, timeout_events, pc, call, calls, consec, last>>
    /\ UNCHANGED aux

NextRecovery ==
    \/ \E c \in Callers : RecoveryCall(c)
    \/ \E c \in Callers, v \in Values : RecoveryReturn(c, v)
    \/ RecoveryTick

\* Time keeps advancing, callers keep calling, and every call in flight ends.
SpecRecovery ==
    /\ InitRecovery
    /\ [][NextRecovery]_vars
    /\ WF_vars(RecoveryTick)
    /\ WF_vars(\E c \in Callers : RecoveryCall(c))
    /\ WF_vars(\E c \in Callers, v \in Values : RecoveryReturn(c, v))

\* ================================================================ claims

\* The default the TimeoutConfig dataclass documents for each of its fields.
DocumentedDefault ==
    [default_timeout |-> 30, analyze_code_timeout |-> 60, generate_code_timeout |-> 90,
     explain_code_timeout |-> 45, optimize_code_timeout |-> 75,
     generate_tests_timeout |-> 120, test_connection_timeout |-> 10]

\* The value configured for a field in environment env: the override given at
\* construction if there is one, else the documented default.
Configured(env, field) ==
    IF \E n \in DOMAIN env : EnvField[n] = field
    THEN Float[env[CHOOSE n \in DOMAIN env : EnvField[n] = field]]
    ELSE DocumentedDefault[field]

\* C1: a CLOSED breaker becomes OPEN exactly at the recorded failure that
\* completes failure_threshold consecutive failures (consec counts the failures
\* recorded since the last recorded success); with fewer it stays CLOSED, and a
\* success recorded while CLOSED resets failure_count to 0 and leaves it CLOSED.
C1_OpensExactlyAtThreshold ==
    /\ state = CLOSED => consec < config.failure_threshold
    /\ (last.op = "failure" /\ last.pre.state = CLOSED) =>
          /\ failure_count = consec
          /\ state = OPEN <=> consec = config.failure_threshold
          /\ state = CLOSED <=> consec < config.failure_threshold
    /\ (last.op = "success" /\ last.pre.state = CLOSED) =>
          /\ failure_count = 0
          /\ state = CLOSED

\* a second consecutive failure has just opened a breaker whose threshold is 2
C1_Witness ==
    /\ last.op = "failure"
    /\ last.pre.state = CLOSED
    /\ last.pre.failure_count > 0
    /\ state = OPEN
    /\ consec = config.failure_threshold

\* C2: a call() made while the breaker is OPEN and recovery_timeout has not
\* elapsed since last_failure_time is rejected with an error, does not invoke
\* the wrapped function, leaves state, failure_count, success_count and
\* last_failure_time as they were and appends nothing to the timeout-event log.
C2_OpenRejects ==
    (/\ last.op = "call"
     /\ last.pre.state = OPEN
     /\ last.t - last.pre.last_failure_time < config.recovery_timeout)
    => /\ last.res.kind = "raised"
       /\ ~last.invoked
       /\ Breaker = last.pre
       /\ Len(timeout_events) = last.log

\* a call has just been rejected by an OPEN breaker
C2_Witness ==
    /\ last.op = "call"
    /\ last.pre.state = OPEN
    /\ last.t - last.pre.last_failure_time < config.recovery_timeout
    /\ last.res.kind = "raised"
    /\ health_available

\* C3: a call() made while the breaker is OPEN and recovery_timeout has elapsed
\* is admitted: the breaker is HALF_OPEN with success_count = 0 in the state in
\* which the wrapped function is invoked (the admission check runs before the
\* invocation within the same step), and a function that then returns makes
\* call() return its result.
C3_RecoveryProbe ==
    /\ (/\ last.op = "call"
        /\ last.pre.state = OPEN
        /\ last.t - last.pre.last_failure_time >= config.recovery_timeout)
       => /\ last.invoked
          /\ last.res.kind = "none"
          /\ state = HALF_OPEN
          /\ success_count = 0
    /\ (last.op = "success" /\ last.pre.state = HALF_OPEN)
       => /\ last.fn.kind = "returned"
          /\ last.res = last.fn

\* the call that finds the recovery timeout elapsed has just been admitted
C3_Witness ==
    /\ last.op = "call"
    /\ last.pre.state = OPEN
    /\ last.invoked
    /\ state = HALF_OPEN

\* C4: a failure recorded in HALF_OPEN moves the breaker to OPEN and sets
\* success_count to 0, whatever failure_threshold is and however many successes
\* were counted.
C4_HalfOpenFailureOpens ==
    (last.op = "failure" /\ last.pre.state = HALF_OPEN)
    => /\ state = OPEN
       /\ success_count = 0

\* a half-open breaker that had counted a success has just failed
C4_Witness ==
    /\ last.op = "failure"
    /\ last.pre.state = HALF_OPEN
    /\ last.pre.success_count > 0
    /\ state = OPEN

\* C5: a success recorded in HALF_OPEN closes the breaker exactly when it is the
\* success_threshold-th success counted since the breaker became HALF_OPEN;
\* after fewer the breaker stays HALF_OPEN; failure_count is 0 when it closes.
C5_HalfOpenCloses ==
    /\ (last.op = "success" /\ last.pre.state = HALF_OPEN) =>
          /\ success_count = last.pre.success_count + 1
          /\ state = CLOSED <=> success_count = config.success_threshold
          /\ state = HALF_OPEN <=> success_count < config.success_threshold
          /\ state = CLOSED => failure_count = 0
    /\ state = HALF_OPEN => success_count < config.success_threshold

\* the second of two required successes has just closed the breaker
C5_Witness ==
    /\ last.op = "success"
    /\ last.pre.state = HALF_OPEN
    /\ last.pre.success_count > 0
    /\ state = CLOSED

\* Whether the completion recorded in `last` came with the deadline of
\* timeout_wrapper reached.
Overrun(h) ==
    /\ h.call.tmo # NoTimeout
    /\ h.t - h.call.started >= h.call.tmo

\* What call() awaited in the completion recorded in `last` gave: func's own
\* outcome, or the timeout error of the wrapper.
AwaitedOutcome(h) ==
    IF Overrun(h) THEN Raised(OperationTimedOut(h.call.tmo)) ELSE h.fn

C7_TimeoutCountsAsFailure ==
    /\ failure_count = consec
    /\ (last.op \in {"success", "failure"} /\ Overrun(last)) =>
          /\ last.op = "failure"
          /\ failure_count = last.pre.failure_count + 1
          /\ last.pre.state = CLOSED =>
                (state = OPEN <=> consec >= config.failure_threshold)

\* an exception and then a timeout have opened a breaker whose threshold is 2
C7_Witness ==
    /\ last.op = "failure"
    /\ Overrun(last)
    /\ last.pre.state = CLOSED
    /\ last.pre.failure_count = 1
    /\ state = OPEN
    /\ Len(timeout_events) = 3

\* C8: the breaker leaves OPEN for HALF_OPEN only in a call(): the passing of
\* time and get_state() leave state, failure_count, success_count and
\* last_failure_time as they were, however long ago recovery_timeout elapsed,
\* and get_state() reports those fields.
C8_LazyHalfOpen ==
    /\ last.op \in {"tick", "get_state"} => Breaker = last.pre
    /\ (last.pre.state = OPEN /\ state = HALF_OPEN) => last.op = "call"
    /\ last.op = "get_state" =>
          /\ last.ret.state = state
          /\ last.ret.failure_count = failure_count
          /\ last.ret.success_count = success_count
          /\ last.ret.last_failure_time = last_failure_time

\* get_state() sees a breaker still OPEN after more than recovery_timeout
C8_Witness ==
    /\ last.op = "get_state"
    /\ state = OPEN
    /\ last.ret.state = OPEN
    /\ last.ret.time_since_last_failure > config.recovery_timeout

\* C9: a call() rejected by an OPEN breaker raises CircuitBreakerException, and
\* the HTTP client of analyze_code gets 503 with code CIRCUIT_BREAKER_OPEN.
C9_RejectionIsTyped503 ==
    (last.op = "call" /\ ~last.invoked) =>
        /\ last.res.kind = "raised"
        /\ last.res.err.cls = "CircuitBreakerException"
        /\ last.call.via = "analyze_code" =>
              /\ last.http.status = HTTP_UNAVAILABLE
              /\ last.http.code = "CIRCUIT_BREAKER_OPEN"

C11_GetTimeoutLookup ==
    tm.op # "" \/ tm.ret # NoTimeout =>
        /\ tm.ret \in Nat \ {0}
        /\ tm.op \in KnownOperations =>
              tm.ret = Configured(tm.env, tm.op \o "_timeout")
        /\ tm.op \notin KnownOperations =>
              tm.ret = Configured(tm.env, "default_timeout")
        /\ \A f \in DOMAIN tm.config : tm.config[f] = Configured(tm.env, f)

\* an unknown operation looked up in a manager whose global default is
\* overridden, analyze_code being left at its default
C11_Witness ==
    /\ tm.op = "unknown_operation"
    /\ "OPENAI_DEFAULT_TIMEOUT" \in DOMAIN tm.env
    /\ "OPENAI_ANALYZE_CODE_TIMEOUT" \notin DOMAIN tm.env
    /\ tm.ret = Float[tm.env["OPENAI_DEFAULT_TIMEOUT"]]
    /\ tm.config.analyze_code_timeout = 60

\* C12: after n recordings the log holds the most recent min(n, 100) events,
\* oldest first, and never more than 100.
C12_LogKeepsLast100 ==
    /\ Len(timeout_events) <= 100
    /\ Len(timeout_events) = (IF recorded < 100 THEN recorded ELSE 100)
    /\ \A i \in 1..Len(timeout_events) :
          timeout_events[i].timestamp = recorded - Len(timeout_events) + i

\* 150 recordings have left events 51..150
C12_Witness ==
    /\ recorded = 150
    /\ Len(timeout_events) = 100
    /\ timeout_events[1].timestamp = 51
    /\ timeout_events[100].timestamp = 150

\* C13: GET /health's status is unhealthy iff some service is unhealthy,
\* degraded iff none is but a breaker is OPEN or more than 10 timeout events
\* lie in the last 24 hours, and healthy otherwise.
C13_OverallStatus ==
    health.op = "overall" =>
        LET some_unhealthy ==
                \E i \in DOMAIN health.services : health.services[i].status = "unhealthy"
            strained ==
                \/ \E n \in DOMAIN health.breakers : health.breakers[n] = OPEN
                \/ health.log.recent > 10
        IN /\ health.status = "unhealthy" <=> some_unhealthy
           /\ health.status = "degraded" <=> (~some_unhealthy /\ strained)
           /\ health.status = "healthy" <=> (~some_unhealthy /\ ~strained)

\* C14: each endpoint of the GET /health family answers 200 when the status
\* it reports is healthy or degraded, and 503 only when it is unhealthy.
C14_HealthHttpStatus ==
    health.op \in {"overall", "timeout", "services", "circuit-breakers"} =>
        /\ health.status \in {"healthy", "degraded"} => health.http = 200
        /\ health.http = 503 => health.status = "unhealthy"

\* C17: a probe that raises or reports failure never escapes the health
\* check: its service is reported unhealthy with the error message, every
\* service is still reported, in order, and check_overall_health returns a
\* SystemHealth.
C17_ProbeFailuresSwallowed ==
    health.op = "overall" =>
        /\ health.status \in {"healthy", "degraded", "unhealthy"}
        /\ Len(health.services) = 4
        /\ \A i \in 1..4 :
              /\ health.services[i].name = ServiceNames[i]
              /\ health.services[i].kind = "returned"
              /\ ServiceNames[i] \in Probed =>
                    LET outcome == health.probes[ServiceNames[i]] IN
                    /\ outcome = "ok" =>
                          /\ health.services[i].status = "healthy"
                          /\ health.services[i].error_message = ""
                    /\ outcome # "ok" =>
                          /\ health.services[i].status = "unhealthy"
                          /\ health.services[i].error_message # ""
                    /\ outcome = "raises" =>
                          health.services[i].error_message = "probe exploded"

\* the first probe raised, the second reported failure, the third succeeded
C17_Witness ==
    /\ health.op = "overall"
    /\ health.probes["openai"] = "raises"
    /\ health.probes["github"] = "fail"
    /\ health.probes["github_extended"] = "ok"
    /\ health.status = "unhealthy"
    /\ health.services[1].status = "unhealthy"
    /\ health.services[3].status = "healthy"
    /\ health.services[4].status = "healthy"

\* C15: a handler that has not finished when the timeout resolved for its
\* route is up is abandoned at that moment: dispatch raises TimeoutException
\* (TIMEOUT_ERROR, 408) whose details hold the resolved timeout as
\* timeout_limit, the duration, the path and the method; call_next is called
\* once per dispatch.
C15_MiddlewareTimeout ==
    /\ mw.op \in {"running", "done"} => mw.elapsed <= mw.timeout_seconds
    /\ mw.op = "done" =>
          /\ mw.invocations = 1
          /\ mw.elapsed >= mw.timeout_seconds =>
                /\ mw.res.kind = "raised"
                /\ mw.res.err.cls = "TimeoutException"
                /\ mw.res.err.error_code = "TIMEOUT_ERROR"
                /\ mw.res.err.status_code = 408
                /\ mw.res.err.details.timeout_limit = mw.timeout_seconds
                /\ mw.res.err.details.actual_duration = mw.elapsed
                /\ mw.res.err.details.path = mw.path
                /\ mw.res.err.details.method = mw.method

\* POST /api/analyze/code has been cut off at its 45 seconds
C15_Witness ==
    /\ mw.op = "done"
    /\ mw.method = "POST"
    /\ mw.path = "/api/analyze/code"
    /\ mw.fn.kind = "pending"
    /\ mw.elapsed = 45
    /\ mw.res.kind = "raised"
    /\ mw.res.err.details.timeout_limit = 45

\* C16: the timeout of a request is that of the configured key equal to
\* METHOD:path, and default_timeout when no key is equal to it, also when the
\* path is an instance of a configured path template.
C16_ExactRouteKey ==
    mw.op \in {"running", "done"} =>
        LET key == mw.method \o ":" \o mw.path IN
        /\ key \in DOMAIN mw.cfg.route_timeouts =>
              mw.timeout_seconds = mw.cfg.route_timeouts[key]
        /\ key \notin DOMAIN mw.cfg.route_timeouts =>
              mw.timeout_seconds = mw.cfg.default_timeout
        /\ mw.path = "/api/workflow/flow/acme/widgets" =>
              mw.timeout_seconds = mw.cfg.default_timeout

\* a concrete flow path gets the default of 20 although its template has 30
C16_Witness ==
    /\ mw.op = "running"
    /\ mw.method = "GET"
    /\ mw.path = "/api/workflow/flow/acme/widgets"
    /\ mw.cfg.default_timeout = 20
    /\ "GET:/api/workflow/flow/{owner}/{repo}" \in DOMAIN mw.cfg.route_timeouts
    /\ mw.cfg.route_timeouts["GET:/api/workflow/flow/{owner}/{repo}"] = 30
    /\ mw.timeout_seconds = 20

\* C18: with calls of several tasks in flight on one breaker, every admission
\* and every recording is applied whole: each recorded failure raises
\* failure_count by one, failures since the last success are all counted, and
\* in every state between steps the fields agree with each other (CLOSED below
\* the failure threshold, HALF_OPEN below the success threshold, OPEN with a
\* failure time, a call admitted only by a breaker not left OPEN).
C18_AtomicSteps ==
    /\ last.op = "failure" => failure_count = last.pre.failure_count + 1
    /\ last.op = "success" => failure_count = 0
    /\ failure_count = consec
    /\ state = CLOSED => failure_count < config.failure_threshold
    /\ state = HALF_OPEN => success_count < config.success_threshold
    /\ state = OPEN => last_failure_time # NoTime
    /\ (last.op = "call" /\ last.invoked) => state \in {CLOSED, HALF_OPEN}

\* two calls were in flight together; both have failed and both are counted,
\* the second after the first had opened the breaker
C18_Witness ==
    /\ last.op = "failure"
    /\ last.pre.state = OPEN
    /\ failure_count = 2
    /\ config.failure_threshold = 1

\* C19 as claimed: outcomes are applied in the order of admission, so no
\* outcome is applied while a call admitted earlier is still in flight.
C19_ArrivalOrder ==
    last.op \in {"success", "failure"} => last.call.ahead = 0

\* C19 as amended: the outcome of a call is applied when its function
\* completes, to the breaker as it stands then, whether or not calls admitted
\* earlier are still in flight: a failure counts one more, stamps the time of
\* completion and opens a HALF_OPEN breaker or a CLOSED one at the threshold; a
\* success zeroes failure_count and closes a HALF_OPEN breaker at the threshold.
C19_CompletionOrder ==
    /\ last.op = "failure" =>
          /\ failure_count = last.pre.failure_count + 1
          /\ last_failure_time = last.t
          /\ success_count = 0
          /\ state = (IF last.pre.state = HALF_OPEN THEN OPEN
                      ELSE IF last.pre.state = CLOSED
                              /\ last.pre.failure_count + 1 >= config.failure_threshold
                      THEN OPEN
                      ELSE last.pre.state)
    /\ last.op = "success" =>
          /\ failure_count = 0
          /\ last_failure_time = last.pre.last_failure_time
          /\ state = (IF last.pre.state = HALF_OPEN
                         /\ last.pre.success_count + 1 >= config.success_threshold
                      THEN CLOSED
                      ELSE last.pre.state)

\* the call admitted second has failed at a later time than an earlier failure
\* and opened the breaker while the call admitted first is still in flight
C19_Witness ==
    /\ last.op = "failure"
    /\ last.pre.state = CLOSED
    /\ last.pre.last_failure_time # NoTime
    /\ last.pre.last_failure_time < last.t
    /\ state = OPEN
    /\ last.call.ahead = 1
    /\ \E c \in Callers : pc[c] = "running" /\ call[c].ahead = 0

\* C20: each protected dependency has exactly one CircuitBreaker for the life of
\* the process. A call to the OpenAI API, by a request or by the health probe,
\* is counted by the breaker health_service reports; failures of separate
\* requests accumulate, so that once failure_threshold calls in a row have
\* failed that breaker is OPEN; and the snapshot put into SystemHealth is the
\* state of the breaker of every client with a business call in flight.
C20_OneBreakerPerDependency ==
    /\ consec >= config.failure_threshold => clients[1].circuit_breaker.state = OPEN
    /\ last.op = "call" => last.post = clients[1].circuit_breaker
    /\ last.op = "snapshot" =>
          \A i \in 2..Len(clients) : last.ret = StateDict(clients[i].circuit_breaker, now)

\* C21, as stated: success_count is reset whenever the breaker leaves HALF_OPEN;
\* in every reachable state in which the breaker is CLOSED or OPEN,
\* success_count is 0.
C21_ZeroOutsideHalfOpen ==
    state \in {CLOSED, OPEN} => success_count = 0

\* C21, amended: success_count is reset when the breaker leaves HALF_OPEN for
\* OPEN (and by every recorded failure, and on entering HALF_OPEN), but not when
\* it leaves HALF_OPEN for CLOSED: the success that closes the breaker leaves
\* success_count at success_threshold, where it stays until the next recorded
\* failure. An OPEN breaker has success_count 0; a CLOSED one has 0 or
\* success_threshold.
C21_ResetOnFailureOnly ==
    /\ state = OPEN => success_count = 0
    /\ state = CLOSED => success_count \in {0, config.success_threshold}
    /\ (last.op = "success" /\ last.pre.state = HALF_OPEN /\ state = CLOSED)
          => success_count = config.success_threshold
    /\ (last.op = "success" /\ last.pre.state = CLOSED)
          => success_count = last.pre.success_count
    /\ last.op = "failure" => success_count = 0

\* a breaker closed by a half-open success has just recorded one more success,
\* with success_count still at success_threshold
C21_Witness ==
    /\ last.op = "success"
    /\ last.pre.state = CLOSED
    /\ state = CLOSED
    /\ success_count = config.success_threshold

\* The state changes of §4.3.
Transitions ==
    {<<CLOSED, OPEN>>, <<OPEN, HALF_OPEN>>, <<HALF_OPEN, CLOSED>>, <<HALF_OPEN, OPEN>>}

\* C22: over any sequence and interleaving of call() and get_state(), every
\* change of the breaker's state is CLOSED to OPEN, OPEN to HALF_OPEN, HALF_OPEN
\* to CLOSED or HALF_OPEN to OPEN; never OPEN to CLOSED nor CLOSED to HALF_OPEN,
\* also when the outcome of a call admitted earlier is recorded after the state
\* has changed.
C22_OnlyDocumentedTransitions ==
    [][state' # state => <<state, state'>> \in Transitions]_vars

\* a call admitted while the breaker was CLOSED has just succeeded with the
\* breaker OPEN, and the breaker is still OPEN
C22_Witness ==
    /\ last.op = "success"
    /\ last.pre.state = OPEN
    /\ state = OPEN

\* C23: check_timeout_health reports degraded exactly when more than 10
\* timeout events lie within the trailing 24 hours and healthy when 10 or fewer
\* do; events older than 24 hours are not counted.
C23_DegradedAboveTen ==
    health.op = "timeout" =>
        /\ health.status = "degraded" <=> health.log.recent > 10
        /\ health.status = "healthy" <=> health.log.recent <= 10

\* C24: while the breaker is HALF_OPEN at most success_threshold admitted calls
\* are in flight at the same time: a caller that arrives at a HALF_OPEN breaker
\* with success_threshold calls already in flight is rejected.
C24_HalfOpenProbesBounded ==
    (/\ last.op = "call"
     /\ last.pre.state = HALF_OPEN
     /\ last.call.ahead >= config.success_threshold)
    => ~last.invoked

C28_OneEventPerFailedCall ==
    health_available =>
        /\ last.op = "failure" => Len(timeout_events) = last.log + 1
        /\ last.op \in {"success", "call"} => Len(timeout_events) = last.log

\* C29: once the dependency has recovered, with time advancing, callers
\* calling and every admitted call succeeding, an OPEN breaker becomes
\* HALF_OPEN and a HALF_OPEN breaker becomes CLOSED, for every recovery_timeout
\* and every success_threshold >= 1.
C29_RecoversWhenDependencyDoes ==
    /\ (state = OPEN) ~> (state = HALF_OPEN)
    /\ (state = HALF_OPEN) ~> (state = CLOSED)

\* a breaker that was OPEN has been closed by the last of success_threshold > 1
\* successes, after the longest recovery_timeout
C29_Witness ==
    /\ state = CLOSED
    /\ last_failure_time = 1
    /\ now - last_failure_time >= config.recovery_timeout
    /\ config.recovery_timeout = MaxRecovery
    /\ config.success_threshold = MaxThreshold
    /\ success_count = config.success_threshold
    /\ failure_count = 0
    /\ last.op = "init"

\* C30: in every state reachable through call(), with thresholds >= 1 and
\* under any interleaving of concurrent callers: an OPEN breaker has
\* last_failure_time set, a CLOSED breaker has failure_count below
\* failure_threshold, and a HALF_OPEN breaker has success_count below
\* success_threshold.
C30_StateFieldsConsistent ==
    /\ config.failure_threshold >= 1 /\ config.success_threshold >= 1
    /\ state = OPEN => /\ last_failure_time # NoTime
                       /\ now - last_failure_time >= 0
    /\ state = CLOSED => failure_count < config.failure_threshold
    /\ state = HALF_OPEN => success_count < config.success_threshold

\* a call admitted before the breaker opened has just succeeded: the breaker is
\* OPEN with failure_count back at 0, and last_failure_time still set
C30_Witness ==
    /\ state = OPEN
    /\ failure_count = 0
    /\ last_failure_time # NoTime
    /\ last.op = "success"

====
